---------------------------- MODULE Spec2Model ----------------------------
(***************************************************************************)
(* Model of src/main.py: the one-shot NetBox export script.  main() is a   *)
(* straight-line pipeline: environment check, API connection test, scan of *)
(* all DCIM interfaces with a client-side "virtual" filter, scan of all    *)
(* IPAM addresses joined to the collected interfaces, and the CSV write of *)
(* the finally block.  Each loop iteration is one action; the remote       *)
(* collections are chosen record by record by the environment.             *)
(* The print() calls, the time.time() stamps and the estimated_total_*     *)
(* values (used only inside progress messages) carry no state that any     *)
(* branch of the program reads and are left out.                           *)
(***************************************************************************)
EXTENDS Integers, Sequences, FiniteSets, TLC

(* ---- bounds of the model ---- *)
\* largest number of interface records the remote collection yields
MaxIfaces == 2
\* largest number of IP-address records the remote collection yields
MaxIps == 2

(* ---- values of the inputs ---- *)
\* os.getenv() results: unset (None), set to the empty string, or set
EnvValues == {"None", "", "https://netbox"}

\* value of iface.kind / iface.type: attribute missing or falsy, 'virtual',
\* or any other choice value
ChoiceValues == {"absent", "virtual", "other"}

\* iface.device: None, a nested record without a name attribute, or a
\* nested record whose name is the given string
DeviceValues == {"None", "noattr", "sw1", "sw2"}

\* iface.name: attribute missing, or the interface's name
NameValues == {"noattr", "vlan10"}

\* iface.id: the inventory's primary keys are positive; two of them give
\* distinct and repeated ids, and ids of interfaces that were never yielded
InterfaceIds == {1, 2}

InterfaceRecords ==
    [id : InterfaceIds, kind : ChoiceValues, type : ChoiceValues,
     device : DeviceValues, name : NameValues]

\* ip_obj.assigned_object_id: 0 stands for None (no assigned object)
AssignedIds == {0} \cup InterfaceIds

AssignedTypes == {"dcim.interface", "virtualization.vminterface"}

Addresses == {"10.0.0.1/24", "10.0.0.2/24"}

IpRecords ==
    [assigned_object_type : AssignedTypes, assigned_object_id : AssignedIds,
     address : Addresses]

\* exceptions that leave a scan loop: a page request of the iterator fails
\* (RequestError, before a record is yielded) or an attribute access on a
\* yielded record fails (AttributeError, after the record was counted).
\* The handlers of lines 187-198 differ only in what they print.
Exceptions == {"RequestError", "AttributeError"}

(* ---- the output file ---- *)
\* variant: the first two columns of line 42 exchanged
header_misordered == <<"ip_address", "parent_hostname", "interface_name">>

\* line 42
header == <<"parent_hostname", "ip_address", "interface_name">>

AbsentFile == [exists |-> FALSE, rows |-> <<>>]

\* what an earlier run may have left under OUTPUT_CSV_FILE
EarlierOutput ==
    [exists |-> TRUE,
     rows |-> << <<"parent_hostname", "ip_address", "interface_name">>,
                 <<"old-sw", "192.0.2.1/24", "old-vlan">> >>]

\* open(..., mode='w') followed by the writer calls: the outcomes are a
\* complete write, a failed open (file untouched), or a failure after the
\* open truncated the file (a strict prefix of the rows reaches the file)
WriteOutcomes == {"ok", "open_fails", "write_fails"}

Prefixes(s) == {SubSeq(s, 1, n) : n \in 0..Len(s)}

WriteFile(old, content, outcome) ==
    CASE outcome = "ok" -> {[exists |-> TRUE, rows |-> content]}
      [] outcome = "open_fails" -> {old}
      [] OTHER -> {[exists |-> TRUE, rows |-> p] :
                      p \in Prefixes(content) \ {content}}

VARIABLES
    pc,                 \* position of main()
    NETBOX_URL, NETBOX_TOKEN,
    api_calls,          \* set of API endpoints that were requested
    exit_status,        \* -1 while running
    caught,             \* exception caught by the second try, or "none"
    csv_data_rows,
    virtual_interfaces_map,
    interface_to_ips_map,
    count_total_interfaces_scanned,
    count_virtual_interfaces_identified,
    count_total_ips_scanned,
    count_ips_mapped_to_virtual_iface,
    output_file,        \* the file named OUTPUT_CSV_FILE
    file_before,        \* history: output_file when the run started
    written,            \* history: branch the finally block took
    write_outcome,      \* history: how its write ended, "none" if no write
    connected,          \* history: "pending", or how lines 23-39 ended
    scanned_interfaces, \* history: Observed(iface) of each record yielded
    scanned_ips,        \* history: Assignment(ip_obj) of each record yielded
    interfaces_exhausted \* history: the interface loop ended normally

vars == <<pc, NETBOX_URL, NETBOX_TOKEN, api_calls, exit_status, caught,
          csv_data_rows, virtual_interfaces_map, interface_to_ips_map,
          count_total_interfaces_scanned, count_virtual_interfaces_identified,
          count_total_ips_scanned, count_ips_mapped_to_virtual_iface,
          output_file, file_before, written, write_outcome, connected,
          scanned_interfaces, scanned_ips, interfaces_exhausted>>

dataVars == <<csv_data_rows, virtual_interfaces_map, interface_to_ips_map,
              count_total_interfaces_scanned,
              count_virtual_interfaces_identified,
              count_total_ips_scanned, count_ips_mapped_to_virtual_iface,
              scanned_interfaces, scanned_ips, interfaces_exhausted>>

envVars == <<NETBOX_URL, NETBOX_TOKEN, file_before>>

EmptyMap == [i \in {} |-> 0]

Put(m, k, v) == [i \in (DOMAIN m) \cup {k} |-> IF i = k THEN v ELSE m[i]]

Init ==
    /\ pc = "check_env"
    /\ NETBOX_URL \in EnvValues
    /\ NETBOX_TOKEN \in EnvValues
    /\ api_calls = {}
    /\ exit_status = -1
    /\ caught = "none"
    /\ csv_data_rows = <<>>
    /\ virtual_interfaces_map = EmptyMap
    /\ interface_to_ips_map = EmptyMap
    /\ count_total_interfaces_scanned = 0
    /\ count_virtual_interfaces_identified = 0
    /\ count_total_ips_scanned = 0
    /\ count_ips_mapped_to_virtual_iface = 0
    /\ output_file \in {AbsentFile, EarlierOutput}
    /\ file_before = output_file
    /\ written = "none"
    /\ write_outcome = "none"
    /\ connected = "pending"
    /\ scanned_interfaces = <<>>
    /\ scanned_ips = <<>>
    /\ interfaces_exhausted = FALSE

\* variant: only an unset variable counts as missing
Truthy_empty_ok(s) == s # "None"

\* Python truth value of an environment string
Truthy(s) == s \notin {"None", ""}

\* lines 19-21
CheckEnv ==
    /\ pc = "check_env"
    /\ IF ~Truthy(NETBOX_URL) \/ ~Truthy(NETBOX_TOKEN)
         THEN pc' = "exited" /\ exit_status' = 1
         ELSE pc' = "connect" /\ exit_status' = exit_status
    /\ UNCHANGED <<api_calls, caught, output_file, written, write_outcome,
                   connected>>
    /\ UNCHANGED dataVars
    /\ UNCHANGED envVars

\* lines 23-39: pynetbox.api() may raise before any request is made;
\* nb.status() makes a request and may raise
ConnectOutcomes == {"ok", "api_raises", "status_raises"}

\* variant: the handlers of lines 34-39 do not leave the program
Connect_ignores_failure ==
    /\ pc = "connect"
    /\ \E o \in ConnectOutcomes :
         /\ api_calls' = IF o = "api_raises" THEN api_calls
                         ELSE api_calls \cup {"status"}
         /\ connected' = IF o = "ok" THEN "ok" ELSE "failed"
         /\ pc' = "fetch_interfaces"
         /\ exit_status' = exit_status
    /\ UNCHANGED <<caught, output_file, written, write_outcome>>
    /\ UNCHANGED dataVars
    /\ UNCHANGED envVars

Connect ==
    /\ pc = "connect"
    /\ \E o \in ConnectOutcomes :
         /\ api_calls' = IF o = "api_raises" THEN api_calls
                         ELSE api_calls \cup {"status"}
         /\ connected' = IF o = "ok" THEN "ok" ELSE "failed"
         /\ IF o = "ok"
              THEN pc' = "fetch_interfaces" /\ exit_status' = exit_status
              ELSE pc' = "exited" /\ exit_status' = 1
    /\ UNCHANGED <<caught, output_file, written, write_outcome>>
    /\ UNCHANGED dataVars
    /\ UNCHANGED envVars

\* lines 41-68: the locals are set up; .all() is lazy, .count requests one
\* page (limit=1) and its failure is swallowed by the inner try
StartInterfaceFetch ==
    /\ pc = "fetch_interfaces"
    /\ csv_data_rows' = <<>>
    /\ virtual_interfaces_map' = EmptyMap
    /\ count_total_interfaces_scanned' = 0
    /\ count_virtual_interfaces_identified' = 0
    /\ api_calls' = api_calls \cup {"dcim.interfaces"}
    /\ pc' = "scan_interfaces"
    /\ UNCHANGED <<exit_status, caught, output_file, written, write_outcome,
                   connected,
                   interface_to_ips_map, count_total_ips_scanned,
                   count_ips_mapped_to_virtual_iface, scanned_interfaces,
                   scanned_ips, interfaces_exhausted>>
    /\ UNCHANGED envVars

\* variant: type is consulted only when the record has no kind
IsInterfaceVirtual_kind_shadows_type(iface) ==
    IF iface.kind # "absent" THEN iface.kind = "virtual"
    ELSE iface.type = "virtual"

\* lines 85-97
IsInterfaceVirtual(iface) ==
    LET by_kind == iface.kind # "absent" /\ iface.kind = "virtual"
    IN  IF by_kind THEN TRUE
        ELSE iface.type # "absent" /\ iface.type = "virtual"

\* line 109
HasDeviceAndName(iface) ==
    /\ iface.device # "None"
    /\ iface.device # "noattr"
    /\ iface.name # "noattr"

\* History kept of a yielded interface record: its id, whether its kind or
\* its type value is 'virtual' and it carries a named device and a name,
\* and, if so, the two names.
Observed(iface) ==
    LET q == /\ (iface.kind = "virtual" \/ iface.type = "virtual")
             /\ iface.device \in {"sw1", "sw2"}
             /\ iface.name = "vlan10"
    IN  [id |-> iface.id, virtual |-> q,
         name |-> IF q THEN iface.name ELSE "-",
         device_name |-> IF q THEN iface.device ELSE "-"]

\* lines 70-122, one iteration of the interface loop
ScanInterface ==
    /\ pc = "scan_interfaces"
    /\ count_total_interfaces_scanned < MaxIfaces
    /\ \E iface \in InterfaceRecords :
         /\ count_total_interfaces_scanned' = count_total_interfaces_scanned + 1
         /\ scanned_interfaces' = Append(scanned_interfaces, Observed(iface))
         /\ IF IsInterfaceVirtual(iface) /\ HasDeviceAndName(iface)
              THEN /\ virtual_interfaces_map' =
                        Put(virtual_interfaces_map, iface.id,
                            [name |-> iface.name, device_name |-> iface.device])
                   /\ count_virtual_interfaces_identified' =
                        count_virtual_interfaces_identified + 1
              ELSE UNCHANGED <<virtual_interfaces_map,
                               count_virtual_interfaces_identified>>
    /\ UNCHANGED <<pc, api_calls, exit_status, caught, output_file, written,
                   write_outcome, connected,
                   csv_data_rows, interface_to_ips_map,
                   count_total_ips_scanned, count_ips_mapped_to_virtual_iface,
                   scanned_ips, interfaces_exhausted>>
    /\ UNCHANGED envVars

\* An exception leaves the interface loop (lines 70-122): a page request
\* fails before a record is yielded, or an attribute access on the yielded
\* record fails after line 71 counted it.  Lines 187-198 catch it.
InterfaceScanRaises ==
    /\ pc = "scan_interfaces"
    /\ \E e \in Exceptions :
         /\ e = "AttributeError" => count_total_interfaces_scanned < MaxIfaces
         /\ caught' = e
         /\ IF e = "AttributeError"
              THEN count_total_interfaces_scanned' =
                       count_total_interfaces_scanned + 1
              ELSE UNCHANGED count_total_interfaces_scanned
    /\ pc' = "finally"
    /\ UNCHANGED <<api_calls, exit_status, output_file, written,
                   write_outcome, connected,
                   csv_data_rows, virtual_interfaces_map,
                   interface_to_ips_map, count_virtual_interfaces_identified,
                   count_total_ips_scanned, count_ips_mapped_to_virtual_iface,
                   scanned_interfaces, scanned_ips, interfaces_exhausted>>
    /\ UNCHANGED envVars

\* lines 124-157: the interface loop ends; with no virtual interface the
\* function returns (line 133), otherwise the IP fetch is set up
EndInterfaceScan ==
    /\ pc = "scan_interfaces"
    /\ interfaces_exhausted' = TRUE
    /\ IF DOMAIN virtual_interfaces_map = {}
         THEN /\ pc' = "finally"
              /\ UNCHANGED <<api_calls, interface_to_ips_map,
                             count_total_ips_scanned,
                             count_ips_mapped_to_virtual_iface>>
         ELSE /\ pc' = "scan_ips"
              /\ api_calls' = api_calls \cup {"ipam.ip_addresses"}
              /\ interface_to_ips_map' = EmptyMap
              /\ count_total_ips_scanned' = 0
              /\ count_ips_mapped_to_virtual_iface' = 0
    /\ UNCHANGED <<exit_status, caught, output_file, written, write_outcome,
                   connected, csv_data_rows,
                   virtual_interfaces_map, count_total_interfaces_scanned,
                   count_virtual_interfaces_identified, scanned_interfaces,
                   scanned_ips>>
    /\ UNCHANGED envVars

\* variant: the assigned object's type is not looked at
IsAssignedToInterface_any_type(ip_obj) == ip_obj.assigned_object_id # 0

\* line 170
IsAssignedToInterface(ip_obj) ==
    /\ ip_obj.assigned_object_type = "dcim.interface"
    /\ ip_obj.assigned_object_id # 0

\* variant: the list of a key is replaced, not extended
AppendTo_overwrites(m, k, a) == Put(m, k, <<a>>)

\* line 173: defaultdict(list), m[k].append(a)
AppendTo(m, k, a) ==
    Put(m, k, IF k \in DOMAIN m THEN Append(m[k], a) ELSE <<a>>)

\* History kept of a yielded IP record: the interface id it is assigned to
\* (0 when it is assigned to no interface) and its address.
Assignment(ip_obj) ==
    [interface_id |-> IF ip_obj.assigned_object_type = "dcim.interface"
                        THEN ip_obj.assigned_object_id ELSE 0,
     address |-> ip_obj.address]

\* lines 159-174, one iteration of the IP loop
ScanIp ==
    /\ pc = "scan_ips"
    /\ count_total_ips_scanned < MaxIps
    /\ \E ip_obj \in IpRecords :
         /\ count_total_ips_scanned' = count_total_ips_scanned + 1
         /\ scanned_ips' = Append(scanned_ips, Assignment(ip_obj))
         /\ IF /\ IsAssignedToInterface(ip_obj)
               /\ ip_obj.assigned_object_id \in DOMAIN virtual_interfaces_map
              THEN /\ interface_to_ips_map' =
                        AppendTo(interface_to_ips_map,
                                 ip_obj.assigned_object_id, ip_obj.address)
                   /\ count_ips_mapped_to_virtual_iface' =
                        count_ips_mapped_to_virtual_iface + 1
              ELSE UNCHANGED <<interface_to_ips_map,
                               count_ips_mapped_to_virtual_iface>>
    /\ UNCHANGED <<pc, api_calls, exit_status, caught, output_file, written,
                   write_outcome, connected,
                   csv_data_rows, virtual_interfaces_map,
                   count_total_interfaces_scanned,
                   count_virtual_interfaces_identified, scanned_interfaces,
                   interfaces_exhausted>>
    /\ UNCHANGED envVars

\* An exception leaves the IP loop (lines 159-174): a page request fails,
\* or ip_obj lacks assigned_object_type after line 160 counted it.
IpScanRaises ==
    /\ pc = "scan_ips"
    /\ \E e \in Exceptions :
         /\ e = "AttributeError" => count_total_ips_scanned < MaxIps
         /\ caught' = e
         /\ IF e = "AttributeError"
              THEN count_total_ips_scanned' = count_total_ips_scanned + 1
              ELSE UNCHANGED count_total_ips_scanned
    /\ pc' = "finally"
    /\ UNCHANGED <<api_calls, exit_status, output_file, written,
                   write_outcome, connected,
                   csv_data_rows, virtual_interfaces_map,
                   interface_to_ips_map, count_total_interfaces_scanned,
                   count_virtual_interfaces_identified,
                   count_ips_mapped_to_virtual_iface,
                   scanned_interfaces, scanned_ips, interfaces_exhausted>>
    /\ UNCHANGED envVars

\* lines 176-184: the IP loop ends; step 3 ("Combine the data") holds only
\* a print and comments, so csv_data_rows stays as line 41 left it
EndIpScan ==
    /\ pc = "scan_ips"
    /\ pc' = "finally"
    /\ UNCHANGED <<api_calls, exit_status, caught, output_file, written,
                   write_outcome, connected>>
    /\ UNCHANGED dataVars
    /\ UNCHANGED envVars

\* lines 203-206
DataFile == <<header>> \o csv_data_rows

\* variant: the header-only branch opens the file and writes no row
HeaderOnlyFile_empty == <<>>

\* lines 216-218
HeaderOnlyFile == <<header>>

\* variant: the header-only branch does not test os.path.exists
FinallyBranch_always_header(rows, file) ==
    IF rows # <<>> THEN "rows" ELSE "header"

\* lines 200 and 213: which branch of the finally block runs
FinallyBranch(rows, file) ==
    IF rows # <<>> THEN "rows"
    ELSE IF ~file.exists THEN "header"
    ELSE "none"

\* lines 199-220, then main() returns and the interpreter exits with 0
Finally ==
    /\ pc = "finally"
    /\ written' = FinallyBranch(csv_data_rows, output_file)
    /\ CASE written' = "rows" ->
               \E o \in WriteOutcomes :
                  /\ write_outcome' = o
                  /\ output_file' \in WriteFile(output_file, DataFile, o)
         [] written' = "header" ->
               \E o \in WriteOutcomes :
                  /\ write_outcome' = o
                  /\ output_file' \in
                         WriteFile(output_file, HeaderOnlyFile, o)
         [] OTHER -> UNCHANGED <<write_outcome, output_file>>
    /\ pc' = "done"
    /\ exit_status' = 0
    /\ UNCHANGED <<api_calls, caught, connected>>
    /\ UNCHANGED dataVars
    /\ UNCHANGED envVars

Next ==
    \/ CheckEnv
    \/ Connect
    \/ StartInterfaceFetch
    \/ ScanInterface
    \/ InterfaceScanRaises
    \/ EndInterfaceScan
    \/ ScanIp
    \/ IpScanRaises
    \/ EndIpScan
    \/ Finally

Spec == Init /\ [][Next]_vars

(***************************************************************************)
(* Properties                                                              *)
(***************************************************************************)

FixedHeader == <<"parent_hostname", "ip_address", "interface_name">>

RowsOf(f) == {f.rows[k] : k \in 1..Len(f.rows)}

\* no open() or write of the finally block failed
NoWriteFailure == write_outcome \in {"none", "ok"}

\* the rows the join of the two maps stands for
JoinedRows ==
    UNION {{<<virtual_interfaces_map[i].device_name,
              interface_to_ips_map[i][k],
              virtual_interfaces_map[i].name>> :
               k \in 1..Len(interface_to_ips_map[i])} :
           i \in DOMAIN interface_to_ips_map \cap DOMAIN virtual_interfaces_map}

\* ids of the yielded interfaces that are virtual and carry both names
VirtualIdsScanned ==
    {scanned_interfaces[k].id :
        k \in {n \in 1..Len(scanned_interfaces) :
                  scanned_interfaces[n].virtual}}

\* the last yielded virtual interface with id i
LastVirtual(i) ==
    LET ks == {k \in 1..Len(scanned_interfaces) :
                  scanned_interfaces[k].id = i /\ scanned_interfaces[k].virtual}
        last == CHOOSE k \in ks : \A j \in ks : j <= k
    IN  scanned_interfaces[last]

IdsPairwiseDistinct ==
    \A j, k \in 1..Len(scanned_interfaces) :
        scanned_interfaces[j].id = scanned_interfaces[k].id => j = k

\* addresses, in scan order, of the yielded IP records assigned to interface i
AddressesOf(i) ==
    LET sel == SelectSeq(scanned_ips, LAMBDA r : r.interface_id = i)
    IN  [k \in 1..Len(sel) |-> sel[k].address]

RECURSIVE SumOfLengths(_, _)
SumOfLengths(m, S) ==
    IF S = {} THEN 0
    ELSE LET i == CHOOSE x \in S : TRUE
         IN  Len(m[i]) + SumOfLengths(m, S \ {i})

ScansCompleted ==
    /\ pc = "done"
    /\ caught = "none"
    /\ interfaces_exhausted
    /\ "ipam.ip_addresses" \in api_calls

\* C1: after a run whose two scans completed without error, the output
\* file holds a row (device name, address, interface name) for every
\* address joined to a collected virtual interface (file errors aside).
C1_JoinedRowsWritten ==
    (ScansCompleted /\ NoWriteFailure) =>
        /\ output_file.exists
        /\ output_file.rows # <<>> /\ output_file.rows[1] = FixedHeader
        /\ \A r \in JoinedRows : r \in RowsOf(output_file)

\* C2: whatever the finally block puts into the file starts with the fixed
\* three-column header followed by csv_data_rows: a completed write leaves
\* exactly header + csv_data_rows, an interrupted one a prefix of it, a
\* failed open leaves the file as it was.
C2_HeaderFirst ==
    /\ written = "none" => write_outcome = "none" /\ output_file = file_before
    /\ write_outcome = "ok" =>
          /\ output_file.exists
          /\ Len(output_file.rows) = 1 + Len(csv_data_rows)
          /\ output_file.rows[1] = FixedHeader
          /\ SubSeq(output_file.rows, 2, Len(output_file.rows)) = csv_data_rows
    /\ write_outcome = "write_fails" =>
          /\ output_file.exists
          /\ Len(output_file.rows) <= Len(csv_data_rows)
          /\ output_file.rows # <<>> => output_file.rows[1] = FixedHeader
          /\ \A k \in 2..Len(output_file.rows) :
                output_file.rows[k] = csv_data_rows[k - 1]
    /\ write_outcome = "open_fails" => output_file = file_before

C2_Witness ==
    pc = "done" /\ written = "header" /\ write_outcome = "ok"

\* C3: once the interface scan has ended normally, the keys of
\* virtual_interfaces_map are exactly the ids of the yielded interfaces
\* whose kind or type is 'virtual' and that carry a named device and a
\* name, each mapped to the names of the (last) such interface; and at no
\* time does the map hold an id for which no such interface was yielded.
C3_VirtualFilter ==
    /\ DOMAIN virtual_interfaces_map \subseteq VirtualIdsScanned
    /\ interfaces_exhausted =>
          /\ DOMAIN virtual_interfaces_map = VirtualIdsScanned
          /\ \A i \in DOMAIN virtual_interfaces_map :
                /\ virtual_interfaces_map[i].name = LastVirtual(i).name
                /\ virtual_interfaces_map[i].device_name =
                      LastVirtual(i).device_name

C3_Witness ==
    /\ interfaces_exhausted
    /\ DOMAIN virtual_interfaces_map = {1}
    /\ \E k \in 1..Len(scanned_interfaces) :
          scanned_interfaces[k].id = 2 /\ ~scanned_interfaces[k].virtual

\* C4: every key of interface_to_ips_map is a key of virtual_interfaces_map
\* and maps to the addresses, in scan order, of the yielded IP records
\* assigned to that dcim.interface id; every collected interface to which
\* such a record is assigned has a key; records assigned to another object
\* type are not in any list.
C4_JoinByInterfaceId ==
    /\ \A i \in DOMAIN interface_to_ips_map :
          /\ i \in DOMAIN virtual_interfaces_map
          /\ interface_to_ips_map[i] = AddressesOf(i)
    /\ \A i \in DOMAIN virtual_interfaces_map :
          AddressesOf(i) # <<>> => i \in DOMAIN interface_to_ips_map

C4_Witness ==
    /\ \E i \in DOMAIN interface_to_ips_map : interface_to_ips_map[i] # <<>>
    /\ \E k \in 1..Len(scanned_ips) : scanned_ips[k].interface_id = 0

\* C5: the phases run in a fixed order: interface records are requested
\* and yielded only after nb.status() returned, IP records only after the
\* interface loop ended normally, virtual_interfaces_map is frozen once
\* the IP fetch has started, and the file changes only in the finally
\* block, after which nothing is fetched any more.
C5_Step ==
    /\ (scanned_interfaces' # scanned_interfaces
          \/ count_total_interfaces_scanned' # count_total_interfaces_scanned
          \/ "dcim.interfaces" \in api_calls' \ api_calls)
         => connected = "ok"
    /\ (scanned_ips' # scanned_ips
          \/ count_total_ips_scanned' # count_total_ips_scanned)
         => interfaces_exhausted /\ "ipam.ip_addresses" \in api_calls
    /\ "ipam.ip_addresses" \in api_calls' \ api_calls
         => interfaces_exhausted' /\ connected = "ok"
    /\ "ipam.ip_addresses" \in api_calls
         => virtual_interfaces_map' = virtual_interfaces_map
    /\ (output_file' # output_file \/ written' # written)
         => pc = "finally" /\ pc' = "done" /\ connected = "ok"
    /\ pc \in {"finally", "done"}
         => /\ scanned_interfaces' = scanned_interfaces
            /\ scanned_ips' = scanned_ips
            /\ api_calls' = api_calls

C5_LinearPipeline == [][C5_Step]_vars

C5_Witness ==
    /\ pc = "done"
    /\ written = "header"
    /\ scanned_interfaces # <<>>
    /\ scanned_ips # <<>>

\* C6: when an exception ends the IP scan after addresses have been
\* mapped, it is caught (the run ends with status 0) and the finally block
\* writes the data collected so far to the output file (file errors aside).
C6_PartialDataWritten ==
    (/\ pc = "done"
     /\ caught # "none"
     /\ DOMAIN interface_to_ips_map # {}
     /\ NoWriteFailure) =>
        /\ exit_status = 0
        /\ written # "none"
        /\ JoinedRows \subseteq RowsOf(output_file)

NoVirtualInterfaceRun ==
    /\ pc = "done"
    /\ interfaces_exhausted
    /\ DOMAIN virtual_interfaces_map = {}

VariableMissing ==
    NETBOX_URL \in {"None", ""} \/ NETBOX_TOKEN \in {"None", ""}

\* C8: a failed initialization (a variable unset or empty, or the client
\* construction or status check raising) ends the program with exit status
\* 1, with no interface or IP record fetched and the output file as it
\* was; with a variable missing no API request is made at all.
C8_InitFailure ==
    /\ VariableMissing =>
          /\ pc \in {"check_env", "exited"}
          /\ api_calls = {}
    /\ (connected = "failed" \/ (VariableMissing /\ pc # "check_env")) =>
          /\ pc = "exited"
          /\ exit_status = 1
          /\ api_calls \subseteq {"status"}
          /\ scanned_interfaces = <<>> /\ scanned_ips = <<>>
          /\ count_total_interfaces_scanned = 0 /\ count_total_ips_scanned = 0
          /\ written = "none"
          /\ output_file = file_before
    /\ pc = "exited" => connected = "failed" \/ VariableMissing

C8_Witness ==
    pc = "exited" /\ NETBOX_URL = "https://netbox" /\ NETBOX_TOKEN = ""

\* C9: when the finally block has run with csv_data_rows empty and the
\* output file existed before the run, the file is as it was; the
\* header-only branch is taken only when the file did not exist.
C9_ExistingFileUntouched ==
    /\ (pc = "done" /\ csv_data_rows = <<>> /\ file_before.exists) =>
          /\ output_file = file_before
          /\ written = "none"
    /\ written = "header" => ~file_before.exists

C9_Witness ==
    /\ pc = "done"
    /\ file_before.exists
    /\ DOMAIN interface_to_ips_map # {}
    /\ caught = "none"

C10_Inv ==
    /\ count_virtual_interfaces_identified <= count_total_interfaces_scanned
    /\ count_virtual_interfaces_identified >=
          Cardinality(DOMAIN virtual_interfaces_map)
    /\ IdsPairwiseDistinct =>
          count_virtual_interfaces_identified =
              Cardinality(DOMAIN virtual_interfaces_map)
    /\ count_ips_mapped_to_virtual_iface <= count_total_ips_scanned
    /\ count_ips_mapped_to_virtual_iface =
          SumOfLengths(interface_to_ips_map, DOMAIN interface_to_ips_map)

C10_Step ==
    /\ count_total_interfaces_scanned' \in
          {count_total_interfaces_scanned, count_total_interfaces_scanned + 1}
    /\ count_virtual_interfaces_identified' \in
          {count_virtual_interfaces_identified,
           count_virtual_interfaces_identified + 1}
    /\ count_total_ips_scanned' \in
          {count_total_ips_scanned, count_total_ips_scanned + 1}
    /\ count_ips_mapped_to_virtual_iface' \in
          {count_ips_mapped_to_virtual_iface,
           count_ips_mapped_to_virtual_iface + 1}
    /\ count_virtual_interfaces_identified' #
          count_virtual_interfaces_identified
         => count_total_interfaces_scanned' =
               count_total_interfaces_scanned + 1
    /\ count_ips_mapped_to_virtual_iface' # count_ips_mapped_to_virtual_iface
         => count_total_ips_scanned' = count_total_ips_scanned + 1

\* C10: the counters agree with the maps in every state (identified <=
\* scanned, identified >= number of keys with equality for pairwise
\* distinct ids, mapped <= scanned, mapped = total length of the lists)
\* and each counter grows by at most 1 per step, the derived counters only
\* together with the scan counter of their loop.
C10_CountersConsistent == []C10_Inv /\ [][C10_Step]_vars

C10_Witness ==
    /\ count_virtual_interfaces_identified = 2
    /\ Cardinality(DOMAIN virtual_interfaces_map) = 1
    /\ count_ips_mapped_to_virtual_iface = 2
    /\ count_total_ips_scanned = 2

====
